---- MODULE Spec2Model ----
(***************************************************************************)
(* Model of tutorials/statisticalEstimates/_0.ipynb: the multi-cohort      *)
(* data simulation of the notebook.                                        *)
(*                                                                         *)
(* The state is the state of the Jupyter kernel that runs the notebook:    *)
(* the namespace of the kernel (globals), the state of numpy's global      *)
(* pseudorandom generator (rng) and the position of a "Run All" that is    *)
(* in progress (pc).  Every code cell is one action.  A cell that raises   *)
(* keeps the effects of the statements that ran before the exception; a    *)
(* "Run All" stops at the first cell that raises, and a cell can also be   *)
(* executed on its own, in any order, against whatever the namespace holds.*)
(*                                                                         *)
(* Abstractions: floating-point values are integers (correlations in       *)
(* hundredths, standard normal draws quantised to -3..3); the generator is *)
(* a counter-based stream whose state is the position in the stream; the   *)
(* linear transform that gives the draws their covariance is the product   *)
(* with the matrix itself.  A missing value (NaN) of a row is the absence  *)
(* of the column in the row.                                               *)
(***************************************************************************)
EXTENDS Integers, Sequences, FiniteSets, TLC

VARIABLES globals, rng, pc, runSeed, outcome, history, failed,
          num_input, cfg, manual, passes

vars == <<globals, rng, pc, runSeed, outcome, history, failed,
          num_input, cfg, manual, passes>>

----------------------------------------------------------------------------
(* Bounds of the model *)

\* largest sample size tried as the literal of the 'sample size' cell
MaxSamples == 2
\* number of initial states of the generator a kernel can start from
NumSeeds == 2
\* period of the modelled generator: more raw values than the widest range
\* of firm sizes (501..1999), so that every value of a range can be drawn
Modulus == 2048
\* cells executed on their own per behaviour
MaxManual == 2
\* "Run All" commands per behaviour
MaxPasses == 2

----------------------------------------------------------------------------
(* The notebook's configuration: the literals of its cells *)

\* pd.concat([df_1_5, df_6_25, df_26_100, df_101_500, df_501_])
NumCohorts == 5
Cohorts == 1..NumCohorts

\* names = ['job_sat', 'int_qui', 'age', 'org_tnr']
names == <<"job_sat", "int_qui", "age", "org_tnr">>

\* the variable each cohort cell binds its table to
FrameName == <<"df_1_5", "df_6_25", "df_26_100", "df_101_500", "df_501_">>

\* the value each cohort cell writes to the 'cohort' column
Label == <<"micro", "large", "medium", "large", "very large">>

\* every cohort cell assigning the firm sizes to its own table
SizeTargetOwn == FrameName

\* the variable whose .loc[:, 'firm_size'] each cohort cell assigns to
SizeTarget == <<"df_1_5", "df_6_25", "df_26_100", "df_501_", "df_501_">>

\* the code cells, top to bottom
CellOrder == <<"imports", "setup", "micro", "small", "medium", "large",
               "very_large", "concat">>

\* the cohort a cohort cell generates
CohortCells == <<"micro", "small", "medium", "large", "very_large">>

\* variants of the literals: the notebook as written, and the notebook with
\* one literal edited (high= of the 'Very large firms' cell, or an entry of
\* the matrix of the 'Micro firms' cell)
Configs == {"source", "bad_bounds", "asymmetric", "out_of_range"}

\* r[1][2] and r[2][1] of each cohort, in hundredths
JobSatIntQui == <<-40, -30, -25, -20, -15>>

SourceCorr(c) ==
    << <<100, JobSatIntQui[c], -3, 11>>,
       <<JobSatIntQui[c], 100, -5, -9>>,
       <<-3, -5, 100, 5>>,
       <<11, -9, 5, 100>> >>

\* the matrix r of cohort c's cell under configuration k
Corr(k, c) ==
    IF c = 1 /\ k = "asymmetric"
      THEN [SourceCorr(c) EXCEPT ![1][2] = 40]
    ELSE IF c = 1 /\ k = "out_of_range"
      THEN [SourceCorr(c) EXCEPT ![1][2] = 150, ![2][1] = 150]
    ELSE SourceCorr(c)

SourceLow == <<1, 6, 26, 101, 501>>
SourceHigh == <<5, 25, 100, 500, 2000>>

\* low= and high= of cohort c's np.random.randint call under configuration k
Low(k, c) == SourceLow[c]
High(k, c) == IF c = 5 /\ k = "bad_bounds" THEN SourceLow[c] ELSE SourceHigh[c]

----------------------------------------------------------------------------
(* numpy's global generator *)

Seeds == 0..(NumSeeds - 1)

\* the state after k values have been consumed
Advance(s, k) == (s + k) % Modulus

\* the raw value produced at state s
Output(s) == (s * 37 + 11) % Modulus

\* a standard normal draw, quantised
Gauss(s) == (Output(s) % 7) - 3

\* a size check that accepts every size
ValidSizeAny(n) == TRUE

\* a size= argument numpy accepts
ValidSize(n) == n >= 0

Count(n) == IF n >= 0 THEN n ELSE 0

\* x = r z: the transform that gives the draws the covariance r
Transform(r, z) ==
    [i \in 1..4 |-> r[i][1] * z[1] + r[i][2] * z[2]
                    + r[i][3] * z[3] + r[i][4] * z[4]]

\* r is symmetric with unit diagonal and entries within [-1, 1]
IsCorrelationMatrix(r) ==
    \A i \in 1..4 : \A j \in 1..4 :
        /\ r[i][j] = r[j][i]
        /\ r[i][i] = 100
        /\ -100 <= r[i][j]
        /\ r[i][j] <= 100

\* a sampling call that rejects an invalid matrix (check_valid='raise')
MultivariateNormalChecked(r, n) == ~ValidSize(n) \/ ~IsCorrelationMatrix(r)

\* np.random.multivariate_normal(mu, r, size=n) fails: only for a negative
\* size; check_valid defaults to 'warn', so the matrix is never rejected
MultivariateNormalFails(r, n) == ~ValidSize(n)

\* the n draws of np.random.multivariate_normal(mu, r, size=n) from state s,
\* in draw order; each consumes four normals
MultivariateNormal(s, r, n) ==
    [k \in 1..Count(n) |->
        Transform(r, [j \in 1..4 |-> Gauss(Advance(s, 4 * (k - 1) + (j - 1)))])]

\* a draw that does not compare its bounds
RandIntUnchecked(low, high, n) == ~ValidSize(n)

\* np.random.randint(low, high, size=n) fails: ValueError("low >= high")
RandIntFails(low, high, n) == low >= high \/ ~ValidSize(n)

\* the n draws of np.random.randint(low, high, size=n) from state s
RandInt(s, low, high, n) ==
    [k \in 1..Count(n) |->
        IF low < high THEN low + (Output(Advance(s, k - 1)) % (high - low))
        ELSE low]

----------------------------------------------------------------------------
(* pandas *)

RECURSIVE Flatten(_)
Flatten(ss) == IF ss = <<>> THEN <<>> ELSE Head(ss) \o Flatten(Tail(ss))

\* the columns of cs that are not in seen, in order
RECURSIVE NewColumns(_, _)
NewColumns(seen, cs) ==
    IF cs = <<>> THEN <<>>
    ELSE IF \E i \in 1..Len(seen) : seen[i] = Head(cs)
      THEN NewColumns(seen, Tail(cs))
      ELSE <<Head(cs)>> \o NewColumns(Append(seen, Head(cs)), Tail(cs))

\* pd.DataFrame(data, columns=cols)
DataFrame(data, cols) ==
    [columns |-> cols,
     rows |-> [k \in 1..Len(data) |->
                 [c \in {cols[j] : j \in 1..Len(cols)} |->
                    data[k][CHOOSE j \in 1..Len(cols) : cols[j] = c]]]]

\* frame.loc[:, col] = vals, vals one value per row
SetColumn(frame, col, vals) ==
    [columns |-> frame.columns \o NewColumns(frame.columns, <<col>>),
     rows |-> [k \in 1..Len(frame.rows) |->
                 [c \in DOMAIN frame.rows[k] \cup {col} |->
                    IF c = col THEN vals[k] ELSE frame.rows[k][c]]]]

\* a concatenation that then drops the rows with a missing value
ConcatDropNa(frames) ==
    LET cols == NewColumns(<<>>, Flatten([i \in 1..Len(frames) |-> frames[i].columns]))
    IN  [columns |-> cols,
         rows |-> Flatten([i \in 1..Len(frames) |->
                    IF \A j \in 1..Len(cols) :
                          \E m \in 1..Len(frames[i].columns) :
                              frames[i].columns[m] = cols[j]
                      THEN frames[i].rows ELSE <<>>])]

\* a concatenation that lists the frames last to first
ConcatReversed(frames) ==
    [columns |-> NewColumns(<<>>, Flatten([i \in 1..Len(frames) |-> frames[i].columns])),
     rows |-> Flatten([i \in 1..Len(frames) |-> frames[Len(frames) + 1 - i].rows])]

\* pd.concat(frames, axis=0): the rows of the frames in the order of the
\* list; a column a frame lacks is missing (NaN) in that frame's rows
Concat(frames) ==
    [columns |-> NewColumns(<<>>, Flatten([i \in 1..Len(frames) |-> frames[i].columns])),
     rows |-> Flatten([i \in 1..Len(frames) |-> frames[i].rows])]

----------------------------------------------------------------------------
(* the kernel's namespace *)

Defined(g, name) == name \in DOMAIN g

\* a binding that keeps the value a name already has
BindOnce(g, name, value) ==
    [x \in DOMAIN g \cup {name} |-> IF x \in DOMAIN g THEN g[x] ELSE value]

\* name = value
Bind(g, name, value) ==
    [x \in DOMAIN g \cup {name} |-> IF x = name THEN value ELSE g[x]]

EmptyNamespace == [x \in {} |-> 0]

Result(g, s, e) == [globals |-> g, rng |-> s, error |-> e]

\* the cell of the imports
ImportsCell(g, s) ==
    Result(Bind(Bind(g, "np", "module"), "pd", "module"), s, "none")

\* the 'sample size' cell: num_samples, mu, names
SetupCell(g, s, n) ==
    IF ~Defined(g, "np") THEN Result(Bind(g, "num_samples", n), s, "NameError")
    ELSE Result(Bind(Bind(Bind(g, "num_samples", n), "mu", <<0, 0, 0, 0>>),
                     "names", names), s, "none")

\* the cell of cohort c under configuration k
CohortCell(k, c, g, s) ==
    IF ~Defined(g, "np") THEN Result(g, s, "NameError")
    ELSE
    LET g1 == Bind(g, "r", Corr(k, c))
    IN  IF ~Defined(g1, "mu") THEN Result(g1, s, "NameError")
        ELSE
        LET n == g1["num_samples"]
        IN  IF MultivariateNormalFails(g1["r"], n)
              THEN Result(g1, s, "ValueError")
            ELSE
            LET s1 == Advance(s, 4 * n)
                g2 == Bind(g1, FrameName[c],
                           DataFrame(MultivariateNormal(s, g1["r"], n), g1["names"]))
                g3 == Bind(g2, FrameName[c],
                           SetColumn(g2[FrameName[c]], "cohort",
                                     [i \in 1..Len(g2[FrameName[c]].rows) |-> Label[c]]))
            IN  IF RandIntFails(Low(k, c), High(k, c), n)
                  THEN Result(g3, s1, "ValueError")
                ELSE
                LET s2 == Advance(s1, n)
                    sizes == RandInt(s1, Low(k, c), High(k, c), n)
                IN  IF ~Defined(g3, SizeTarget[c])
                      THEN Result(g3, s2, "NameError")
                    ELSE IF Len(g3[SizeTarget[c]].rows) # Len(sizes)
                      THEN Result(g3, s2, "ValueError")
                    ELSE Result(Bind(g3, SizeTarget[c],
                                     SetColumn(g3[SizeTarget[c]], "firm_size", sizes)),
                                s2, "none")

\* the 'Data preparation' cell
ConcatCell(g, s) ==
    IF ~Defined(g, "pd") \/ \E c \in Cohorts : ~Defined(g, FrameName[c])
      THEN Result(g, s, "NameError")
    ELSE Result(Bind(g, "df", Concat([c \in Cohorts |-> g[FrameName[c]]])),
                s, "none")

CohortOf(cell) == CHOOSE c \in Cohorts : CohortCells[c] = cell

\* what executing a cell does to the kernel
Exec(cell, g, s, n, k) ==
    IF cell = "imports" THEN ImportsCell(g, s)
    ELSE IF cell = "setup" THEN SetupCell(g, s, n)
    ELSE IF cell = "concat" THEN ConcatCell(g, s)
    ELSE CohortCell(k, CohortOf(cell), g, s)

----------------------------------------------------------------------------
(* the actions *)

\* no cell executed yet
NoOutcome == [cell |-> "none", error |-> "none", inRun |-> FALSE]

Init ==
    /\ globals = EmptyNamespace
    /\ rng \in Seeds
    /\ pc = 0
    /\ runSeed = 0
    /\ outcome = NoOutcome
    /\ history = {}
    /\ failed = {}
    /\ num_input \in -1..MaxSamples
    /\ cfg \in Configs
    /\ manual = 0
    /\ passes = 0

\* a cell can be executed on its own, or as the next cell of a "Run All"
CanRun(cell) ==
    \/ pc = 0 /\ manual < MaxManual
    \/ pc > 0 /\ CellOrder[pc] = cell

\* the kernel after the execution of cell with effect res: an exception, or
\* the end of the notebook, ends a "Run All"; a "Run All" that reaches the end
\* has produced the dataset df
Executed(cell, res) ==
    LET last == pc = Len(CellOrder)
    IN  /\ globals' = res.globals
        /\ rng' = res.rng
        /\ outcome' = [cell |-> cell, error |-> res.error, inRun |-> pc > 0]
        /\ manual' = IF pc = 0 THEN manual + 1 ELSE manual
        /\ pc' = IF pc = 0 \/ res.error # "none" \/ last THEN 0 ELSE pc + 1
        /\ history' = IF pc > 0 /\ last /\ res.error = "none"
                        THEN history \cup {[seed |-> runSeed,
                                            df |-> res.globals["df"]]}
                        ELSE history
        /\ failed' = IF cell \in {CohortCells[c] : c \in Cohorts}
                           /\ res.error # "none"
                       THEN failed \cup {[cell |-> cell, error |-> res.error]}
                       ELSE failed
        /\ UNCHANGED <<runSeed, num_input, cfg, passes>>

Imports ==
    /\ CanRun("imports")
    /\ Executed("imports", ImportsCell(globals, rng))

Setup ==
    /\ CanRun("setup")
    /\ Executed("setup", SetupCell(globals, rng, num_input))

MicroFirms ==
    /\ CanRun("micro")
    /\ Executed("micro", CohortCell(cfg, 1, globals, rng))

SmallFirms ==
    /\ CanRun("small")
    /\ Executed("small", CohortCell(cfg, 2, globals, rng))

MediumFirms ==
    /\ CanRun("medium")
    /\ Executed("medium", CohortCell(cfg, 3, globals, rng))

LargeFirms ==
    /\ CanRun("large")
    /\ Executed("large", CohortCell(cfg, 4, globals, rng))

VeryLargeFirms ==
    /\ CanRun("very_large")
    /\ Executed("very_large", CohortCell(cfg, 5, globals, rng))

DataPreparation ==
    /\ CanRun("concat")
    /\ Executed("concat", ConcatCell(globals, rng))

\* "Run All": the cells top to bottom, until one raises
RunAll ==
    /\ pc = 0
    /\ passes < MaxPasses
    /\ pc' = 1
    /\ runSeed' = rng
    /\ passes' = passes + 1
    /\ failed' = {}
    /\ outcome' = NoOutcome
    /\ UNCHANGED <<globals, rng, history, num_input, cfg, manual>>

Next ==
    \/ Imports
    \/ Setup
    \/ MicroFirms
    \/ SmallFirms
    \/ MediumFirms
    \/ LargeFirms
    \/ VeryLargeFirms
    \/ DataPreparation
    \/ RunAll

Spec == Init /\ [][Next]_vars

----------------------------------------------------------------------------
(* The datasets of the completed runs *)

\* the datasets "Run All" has produced
Datasets == {rec.df : rec \in history}

\* the cohort whose block holds row i of a dataset of num_input rows a cohort
OwningCohort(i) == ((i - 1) \div num_input) + 1

\* the rows of frame that carry label l
RowsLabelled(frame, l) == {i \in 1..Len(frame.rows) : frame.rows[i]["cohort"] = l}

\* C1: for the notebook as written, in every dataset a run produces, every
\* row has a firm_size and it lies within the bounds low <= firm_size < high
\* of the cohort that owns the row.
C1_FirmSizeWithinBounds ==
    \A d \in Datasets : \A i \in 1..Len(d.rows) :
        cfg = "source" =>
        /\ "firm_size" \in DOMAIN d.rows[i]
        /\ Low(cfg, OwningCohort(i)) <= d.rows[i]["firm_size"]
        /\ d.rows[i]["firm_size"] < High(cfg, OwningCohort(i))

\* C2: for the notebook as written, in every dataset a run produces, the
\* cohort value of every row is the label of exactly one cohort, and every
\* cohort's label is carried by exactly num_samples rows.
C2_LabelsDistinctAndCounted ==
    \A d \in Datasets :
        cfg = "source" /\ num_input > 0 =>
        /\ \A i \in 1..Len(d.rows) :
              Cardinality({c \in Cohorts : Label[c] = d.rows[i]["cohort"]}) = 1
        /\ \A c \in Cohorts :
              Cardinality(RowsLabelled(d, Label[c])) = num_input

\* C3: for num_samples > 0, every dataset a run produces has exactly
\* num_samples * 5 rows.
C3_RowCount ==
    \A d \in Datasets :
        num_input > 0 => Len(d.rows) = num_input * NumCohorts

C3_Witness ==
    /\ num_input = MaxSamples
    /\ outcome = [cell |-> "concat", error |-> "none", inRun |-> TRUE]
    /\ Datasets # {}

\* the four sampled values of a row, in the order of names
Sampled(row) == [j \in 1..4 |-> row[names[j]]]

\* the k-th draw of cohort c in a run that started at generator state seed:
\* the cohorts before c have consumed five values a row each
DrawOf(seed, c, k) ==
    Transform(Corr(cfg, c),
              [j \in 1..4 |->
                 Gauss(Advance(seed, (c - 1) * 5 * num_input + 4 * (k - 1) + (j - 1)))])

\* C4: a dataset lists the cohorts in the order of the list given to the
\* concatenation, and the k-th row of a cohort's block is the cohort's k-th
\* draw: row (c-1)*num_samples + k carries cohort c's label and k-th draw.
C4_OrderPreserved ==
    \A rec \in history : \A c \in Cohorts : \A k \in 1..num_input :
        LET i == (c - 1) * num_input + k
        IN  /\ i <= Len(rec.df.rows)
            /\ rec.df.rows[i]["cohort"] = Label[c]
            /\ Sampled(rec.df.rows[i]) = DrawOf(rec.seed, c, k)

C4_Witness ==
    \E rec \in history :
        /\ num_input = 2
        /\ Sampled(rec.df.rows[1]) # Sampled(rec.df.rows[2])
        /\ rec.df.rows[2]["cohort"] # rec.df.rows[2 * num_input + 1]["cohort"]

\* the cells in order, from namespace g and generator state s, until one raises
RECURSIVE RunCells(_, _, _)
RunCells(cells, g, s) ==
    IF cells = <<>> THEN Result(g, s, "none")
    ELSE LET res == Exec(Head(cells), g, s, num_input, cfg)
         IN  IF res.error # "none" THEN res
             ELSE RunCells(Tail(cells), res.globals, res.rng)

\* another invocation with the same inputs: a kernel in which the imports,
\* the 'sample size' and the 'Very large firms' cells were executed at
\* generator state 0, and whose generator is at state seed when "Run All"
\* starts
ReferenceRun(seed) ==
    LET g0 == RunCells(<<"imports", "setup", "very_large">>, EmptyNamespace, 0).globals
    IN  RunCells(CellOrder, g0, seed)

\* C5: the dataset of a run is the dataset of any other run that starts from
\* the same generator state with the same inputs, whatever the two kernels
\* executed before: it equals the dataset of the reference invocation.
C5_Deterministic ==
    \A rec \in history :
        /\ ReferenceRun(rec.seed).error = "none"
        /\ ReferenceRun(rec.seed).globals["df"] = rec.df

\* a run completed in a kernel whose leftover table came from a failed run
C5_Witness ==
    /\ passes = 2
    /\ manual = 1
    /\ num_input > 0
    /\ \E rec \in history : rec.seed # 0 /\ rec.df = globals["df"]

\* the cohorts whose bounds the draw of firm sizes rejects
BadBounds == {c \in Cohorts : Low(cfg, c) >= High(cfg, c)}

\* the cohorts whose matrix is not a correlation matrix
BadMatrix == {c \in Cohorts : ~IsCorrelationMatrix(Corr(cfg, c))}

\* the last cell executed was cohort c's, as a cell of "Run All"
RanInRun(c) == outcome.cell = CohortCells[c] /\ outcome.inRun

\* C6: when a cohort has firm_size_low >= firm_size_high, the cohort's cell
\* raises (ValueError, in a run) and no run produces a dataset.
C6_BadBoundsFail ==
    \A c \in BadBounds :
        /\ history = {}
        /\ outcome.cell = CohortCells[c] => outcome.error # "none"
        /\ RanInRun(c) => outcome.error = "ValueError" /\ pc = 0

C6_Witness ==
    /\ BadBounds = {5}
    /\ num_input > 0
    /\ RanInRun(5)
    /\ outcome.error = "ValueError"
    /\ globals["df_501_"].columns = Append(names, "cohort")

C9_FailureAborts ==
    num_input > 0 /\ outcome.cell = "concat" /\ outcome.error = "none"
        => \A f \in failed : f.error # "ValueError"

\* the table of cohort d in namespace g, if any
TableOf(g, d) == IF Defined(g, FrameName[d]) THEN <<g[FrameName[d]]>> ELSE <<>>

\* C10: for the notebook as written and num_samples > 0, a step changes the
\* table of cohort d only if it executes cohort d's own cell: no cell writes
\* to another cohort's table, and no table is mutated after the cell that
\* created it.
C10_OwnTableOnly ==
    [][cfg = "source" /\ num_input > 0 =>
          \A d \in Cohorts :
              TableOf(globals', d) # TableOf(globals, d)
                  => outcome'.cell = CohortCells[d]]_vars

----------------------------------------------------------------------------
(* The documented employee bands *)

\* 'Data simulation': micro firms 1 - 5, small firms 6 - 25, medium firms
\* 26 - 100, large firms 100 - 500 employees, very large firms 500 +
BandLow == <<1, 6, 26, 100, 500>>
BandHigh == <<5, 25, 100, 500>>

\* the firm sizes the cell of cohort c can draw: one draw of its
\* np.random.randint call, over every state of the generator
DrawableSizes(c) ==
    {RandInt(s, Low(cfg, c), High(cfg, c), 1)[1] : s \in 0..(Modulus - 1)}

\* the tables and datasets the kernel holds
Frames ==
    {globals[x] : x \in ({FrameName[c] : c \in Cohorts} \cup {"df"})
                        \cap DOMAIN globals}

\* C11: for the notebook as written, once the cell of the micro, small,
\* medium or large cohort has drawn its firm sizes, the firm sizes it can
\* draw are exactly the documented band (1..5, 6..25, 26..100, 100..500),
\* both endpoints included; and every firm_size of a row labelled
\* 'very large' is at least 500.
C11_DocumentedBands ==
    cfg = "source" /\ num_input > 0 =>
        /\ \A c \in 1..4 :
              outcome.cell = CohortCells[c] /\ outcome.error = "none"
                  => DrawableSizes(c) = BandLow[c]..BandHigh[c]
        /\ \A f \in Frames : \A i \in 1..Len(f.rows) :
              f.rows[i]["cohort"] = "very large"
                  /\ "firm_size" \in DOMAIN f.rows[i]
                  => f.rows[i]["firm_size"] >= BandLow[5]

\* C12: in a kernel in which no cell was executed on its own, running the
\* cells top to bottom never defines df_501_ and never produces a dataset:
\* for num_samples >= 0 the 'Large firms' cell, reached while df_501_ is
\* undefined, binds df_101_500, raises NameError and stops the run.  A
\* dataset exists only after df_501_ was defined outside the run.
C12_FreshRunStopsAtLarge ==
    /\ manual = 0 =>
          /\ ~Defined(globals, "df_501_")
          /\ ~Defined(globals, "df")
          /\ history = {}
          /\ pc <= 6
    /\ RanInRun(4) /\ num_input >= 0 /\ ~Defined(globals, "df_501_") =>
          /\ outcome.error = "NameError"
          /\ pc = 0
          /\ Defined(globals, "df_101_500")
    /\ pc > 6 \/ history # {} => Defined(globals, "df_501_") /\ manual > 0

C12_Witness ==
    /\ cfg = "source"
    /\ num_input > 0
    /\ passes = 1
    /\ manual = 0
    /\ RanInRun(4)
    /\ outcome.error = "NameError"
    /\ pc = 0
    /\ globals["df_101_500"].columns = Append(names, "cohort")

====
